---- MODULE Spec2Model ----
(***************************************************************************)
(* The analog watch of The-Free-MRE-Foundation/watch: the time sampler     *)
(* (AnalogWatch.now), the hand animator (AnalogWatch.animateHands and      *)
(* animateHandHelper), stop/remove, and the App handlers that create and   *)
(* destroy watch instances.                                                *)
(*                                                                         *)
(* JavaScript numbers are IEEE-754 binary64.  They are modelled as such:   *)
(* a number is sign * m * 2^e with m an arbitrary-precision natural kept   *)
(* odd (or zero), and every arithmetic operation rounds its exact result   *)
(* to 53 significant bits, ties to even.  Exponent overflow, subnormals,   *)
(* NaN and infinities are outside the values the program computes.         *)
(***************************************************************************)
EXTENDS Integers, Sequences, FiniteSets, TLC

(***************************************************************************)
(* Arbitrary-precision naturals: little-endian sequences of limbs in base  *)
(* 2^15 without leading zero limbs; <<>> is zero.                          *)
(***************************************************************************)
LimbBase == 32768

RECURSIVE Pow2(_)
Pow2(k) == IF k = 0 THEN 1 ELSE 2 * Pow2(k - 1)

RECURSIVE BigNorm(_)
BigNorm(a) ==
  IF a = <<>> THEN <<>>
  ELSE IF a[Len(a)] = 0 THEN BigNorm(SubSeq(a, 1, Len(a) - 1))
  ELSE a

RECURSIVE BigFromInt(_)
BigFromInt(n) ==
  IF n = 0 THEN <<>> ELSE <<n % LimbBase>> \o BigFromInt(n \div LimbBase)

RECURSIVE BigCmpFrom(_, _, _)
BigCmpFrom(a, b, i) ==
  IF i = 0 THEN 0
  ELSE IF a[i] > b[i] THEN 1
  ELSE IF a[i] < b[i] THEN -1
  ELSE BigCmpFrom(a, b, i - 1)

BigCmp(a, b) ==
  IF Len(a) > Len(b) THEN 1
  ELSE IF Len(a) < Len(b) THEN -1
  ELSE BigCmpFrom(a, b, Len(a))

Limb(a, i) == IF i <= Len(a) THEN a[i] ELSE 0

RECURSIVE BigAddFrom(_, _, _, _)
BigAddFrom(a, b, i, carry) ==
  IF i > Len(a) /\ i > Len(b)
  THEN (IF carry = 0 THEN <<>> ELSE <<carry>>)
  ELSE LET s == Limb(a, i) + Limb(b, i) + carry
       IN  <<s % LimbBase>> \o BigAddFrom(a, b, i + 1, s \div LimbBase)

BigAdd(a, b) == BigAddFrom(a, b, 1, 0)

RECURSIVE BigSubFrom(_, _, _, _)
BigSubFrom(a, b, i, borrow) ==
  IF i > Len(a) THEN <<>>
  ELSE LET d == a[i] - Limb(b, i) - borrow
       IN  IF d < 0
           THEN <<d + LimbBase>> \o BigSubFrom(a, b, i + 1, 1)
           ELSE <<d>> \o BigSubFrom(a, b, i + 1, 0)

\* a - b for a >= b
BigSub(a, b) == BigNorm(BigSubFrom(a, b, 1, 0))

RECURSIVE BigMulLimbFrom(_, _, _, _)
BigMulLimbFrom(a, n, i, carry) ==
  IF i > Len(a)
  THEN (IF carry = 0 THEN <<>> ELSE <<carry>>)
  ELSE LET p == a[i] * n + carry
       IN  <<p % LimbBase>> \o BigMulLimbFrom(a, n, i + 1, p \div LimbBase)

\* a * n for a limb n (0 <= n < LimbBase)
BigMulLimb(a, n) == IF n = 0 THEN <<>> ELSE BigMulLimbFrom(a, n, 1, 0)

BigShlLimbs(a, k) == IF a = <<>> THEN <<>> ELSE [i \in 1..k |-> 0] \o a

RECURSIVE BigMulFrom(_, _, _)
BigMulFrom(a, b, j) ==
  IF j > Len(b) THEN <<>>
  ELSE BigAdd(BigShlLimbs(BigMulLimb(a, b[j]), j - 1), BigMulFrom(a, b, j + 1))

BigMul(a, b) == BigMulFrom(a, b, 1)

\* a * 2^k
BigShl(a, k) == BigShlLimbs(BigMulLimb(a, Pow2(k % 15)), k \div 15)

RECURSIVE BigDivLimbFrom(_, _, _, _)
\* quotient limbs (little-endian) of a by the limb d, most significant first
BigDivLimbFrom(a, d, i, rem) ==
  IF i = 0 THEN <<>>
  ELSE LET cur == rem * LimbBase + a[i]
       IN  BigDivLimbFrom(a, d, i - 1, cur % d) \o <<cur \div d>>

RECURSIVE BigModLimbFrom(_, _, _, _)
BigModLimbFrom(a, d, i, rem) ==
  IF i = 0 THEN rem
  ELSE BigModLimbFrom(a, d, i - 1, (rem * LimbBase + a[i]) % d)

BigDivLimb(a, d) == BigNorm(BigDivLimbFrom(a, d, Len(a), 0))
BigModLimb(a, d) == BigModLimbFrom(a, d, Len(a), 0)

\* floor(a / 2^k)
BigShr(a, k) ==
  IF k \div 15 >= Len(a) THEN <<>>
  ELSE BigDivLimb(SubSeq(a, k \div 15 + 1, Len(a)), Pow2(k % 15))

RECURSIVE IntBitLen(_)
IntBitLen(n) == IF n = 0 THEN 0 ELSE 1 + IntBitLen(n \div 2)

BigBitLen(a) ==
  IF a = <<>> THEN 0 ELSE 15 * (Len(a) - 1) + IntBitLen(a[Len(a)])

BigIsOdd(a) == a # <<>> /\ a[1] % 2 = 1

RECURSIVE IntTrailingZeros(_)
IntTrailingZeros(n) == IF n % 2 = 1 THEN 0 ELSE 1 + IntTrailingZeros(n \div 2)

RECURSIVE BigTrailingZeros(_)
\* number of trailing zero bits of a > 0
BigTrailingZeros(a) ==
  IF a[1] = 0 THEN 15 + BigTrailingZeros(Tail(a)) ELSE IntTrailingZeros(a[1])

RECURSIVE BigDivModWide(_, _)
\* long division by halving: a = hi * 2^k + lo, divide hi, then the rest
BigDivModWide(a, b) ==
  IF BigCmp(a, b) < 0 THEN [q |-> <<>>, r |-> a]
  ELSE IF BigCmp(a, BigShl(b, 1)) < 0 THEN [q |-> <<1>>, r |-> BigSub(a, b)]
  ELSE LET k  == (BigBitLen(a) - BigBitLen(b) + 1) \div 2
           hi == BigShr(a, k)
           lo == BigSub(a, BigShl(hi, k))
           h  == BigDivModWide(hi, b)
           l  == BigDivModWide(BigAdd(BigShl(h.r, k), lo), b)
       IN  [q |-> BigAdd(BigShl(h.q, k), l.q), r |-> l.r]

\* [q, r] with a = q*b + r, 0 <= r < b, for b > 0
BigDivMod(a, b) ==
  IF Len(b) = 1
  THEN [q |-> BigDivLimb(a, b[1]), r |-> BigFromInt(BigModLimb(a, b[1]))]
  ELSE BigDivModWide(a, b)

(***************************************************************************)
(* IEEE-754 binary64 values and operations (round to nearest, ties to      *)
(* even).  A value is [s, m, e] = s * m * 2^e, s in {1,-1}, m odd or zero. *)
(***************************************************************************)
Precision == 53

Zero == [s |-> 1, m |-> <<>>, e |-> 0]

\* the canonical form of s * m * 2^e for m of at most Precision bits
Canon(s, m, e) ==
  IF m = <<>> THEN Zero
  ELSE LET z == BigTrailingZeros(m)
       IN  [s |-> s, m |-> BigShr(m, z), e |-> e + z]

\* s * n * 2^e rounded to Precision bits
Round(s, n, e) ==
  LET L == BigBitLen(n) IN
  IF L <= Precision THEN Canon(s, n, e)
  ELSE LET k    == L - Precision
           q    == BigShr(n, k)
           rem  == BigSub(n, BigShl(q, k))
           half == BigShl(<<1>>, k - 1)
           c    == BigCmp(rem, half)
           up   == c > 0 \/ (c = 0 /\ BigIsOdd(q))
       IN  Canon(s, IF up THEN BigAdd(q, <<1>>) ELSE q, e + k)

FromInt(n) ==
  IF n >= 0 THEN Canon(1, BigFromInt(n), 0) ELSE Canon(-1, BigFromInt(-n), 0)

\* the exact product and sum of two values, as s * n * 2^e before rounding
ExactProduct(x, y) == [s |-> x.s * y.s, n |-> BigMul(x.m, y.m), e |-> x.e + y.e]

ExactSum(x, y) ==
  IF x.m = <<>> THEN [s |-> y.s, n |-> y.m, e |-> y.e]
  ELSE IF y.m = <<>> THEN [s |-> x.s, n |-> x.m, e |-> x.e]
  ELSE LET e  == IF x.e < y.e THEN x.e ELSE y.e
           a  == BigShl(x.m, x.e - e)
           b  == BigShl(y.m, y.e - e)
           c  == BigCmp(a, b)
       IN  IF x.s = y.s THEN [s |-> x.s, n |-> BigAdd(a, b), e |-> e]
           ELSE IF c = 0 THEN [s |-> 1, n |-> <<>>, e |-> 0]
           ELSE IF c > 0 THEN [s |-> x.s, n |-> BigSub(a, b), e |-> e]
           ELSE [s |-> y.s, n |-> BigSub(b, a), e |-> e]

Rounded(r) == Round(r.s, r.n, r.e)

FMul(x, y) == Rounded(ExactProduct(x, y))

\* x / y for y # 0
FDiv(x, y) ==
  IF x.m = <<>> THEN Zero
  ELSE LET lx == BigBitLen(x.m)
           ly == BigBitLen(y.m)
           k  == IF Precision + 2 + ly - lx > 0 THEN Precision + 2 + ly - lx ELSE 0
           d  == BigDivMod(BigShl(x.m, k), y.m)
           n  == IF d.r = <<>> THEN BigShl(d.q, 1) ELSE BigAdd(BigShl(d.q, 1), <<1>>)
       IN  Round(x.s * y.s, n, x.e - y.e - k - 1)

FNeg(x) == IF x.m = <<>> THEN x ELSE [x EXCEPT !.s = -x.s]

FAdd(x, y) == Rounded(ExactSum(x, y))

FSub(x, y) == FAdd(x, FNeg(y))

\* -1, 0, 1 as x <, =, > y
FCmp(x, y) ==
  LET d == FSub(x, y) IN IF d.m = <<>> THEN 0 ELSE d.s

FLt(x, y) == FCmp(x, y) < 0
FLe(x, y) == FCmp(x, y) <= 0

(***************************************************************************)
(* Time sampler: AnalogWatch.now.  Strings are sequences of one-character  *)
(* strings.  A timezone is modelled by its offset from UTC in hours; the   *)
(* instant Date.now() is given in seconds since midnight UTC.              *)
(***************************************************************************)
NoTimezone == "none"
DefaultTimezone == "Europe/London"
Timezones == {"Europe/London", "Asia/Tokyo"}

TzOffset(tz) ==
  CASE tz = "Europe/London" -> 0
    [] tz = "Asia/Tokyo"    -> 9

SecondsPerDay == 86400

\* the wall clock <<hour of day, minute, second>> of instant in timezone tz
WallClock(instant, tz) ==
  LET local == (instant + TzOffset(tz) * 3600) % SecondsPerDay
  IN  <<local \div 3600, (local % 3600) \div 60, local % 60>>

DigitChars == <<"0", "1", "2", "3", "4", "5", "6", "7", "8", "9">>

IsDigit(c) == \E d \in 1..10 : DigitChars[d] = c

DigitVal(c) == (CHOOSE d \in 1..10 : DigitChars[d] = c) - 1

\* decimal digits of n without padding
RECURSIVE Digits(_)
Digits(n) ==
  IF n < 10 THEN <<DigitChars[n + 1]>>
  ELSE Digits(n \div 10) \o <<DigitChars[(n % 10) + 1]>>

TwoDigits(n) == <<DigitChars[n \div 10 + 1], DigitChars[(n % 10) + 1]>>

\* Date.prototype.toLocaleTimeString("en-US", {hour12: true}): "h:mm:ss AM"
ToLocaleTimeString(clock) ==
  LET h12 == IF clock[1] % 12 = 0 THEN 12 ELSE clock[1] % 12
  IN  Digits(h12) \o <<":">> \o TwoDigits(clock[2]) \o <<":">> \o TwoDigits(clock[3])
        \o <<" ">> \o (IF clock[1] < 12 THEN <<"A", "M">> ELSE <<"P", "M">>)

\* String.prototype.split for a one-character separator
RECURSIVE SplitFrom(_, _, _, _)
SplitFrom(str, sep, i, piece) ==
  IF i > Len(str) THEN <<piece>>
  ELSE IF str[i] = sep THEN <<piece>> \o SplitFrom(str, sep, i + 1, <<>>)
  ELSE SplitFrom(str, sep, i + 1, Append(piece, str[i]))

Split(str, sep) == SplitFrom(str, sep, 1, <<>>)

\* parseFloat on a string that starts with decimal digits: the integer they spell
RECURSIVE ParseDigits(_, _, _)
ParseDigits(str, i, acc) ==
  IF i > Len(str) \/ ~IsDigit(str[i]) THEN acc
  ELSE ParseDigits(str, i + 1, acc * 10 + DigitVal(str[i]))

ParseFloat(str) == ParseDigits(str, 1, 0)

\* mutant: the seconds of the reading are added, t[0] * 3600 + t[1] * 60 + t[2]
nowWithSeconds(tzOption, instant) ==
  LET tz == IF tzOption # NoTimezone THEN tzOption ELSE DefaultTimezone
      parts == Split(Split(ToLocaleTimeString(WallClock(instant, tz)), " ")[1], ":")
      t == [i \in 1..Len(parts) |-> ParseFloat(parts[i])]
  IN  t[1] * 3600 + t[2] * 60 + t[3]

\* AnalogWatch.now for the timezone option tzOption at the given instant
now(tzOption, instant) ==
  LET tz == IF tzOption # NoTimezone THEN tzOption ELSE DefaultTimezone
      parts == Split(Split(ToLocaleTimeString(WallClock(instant, tz)), " ")[1], ":")
      t == [i \in 1..Len(parts) |-> ParseFloat(parts[i])]
  IN  t[1] * 3600 + t[2] * 60 + t[1]

(***************************************************************************)
(* Hand animator, the computed part: AnalogWatch.animateHands and the      *)
(* keyframes of AnalogWatch.animateHandHelper.  A keyframe's value is the  *)
(* rotation Quaternion.FromEulerAngles(0, angle * DegreesToRadians, 0); it *)
(* is recorded by its angle in degrees.                                    *)
(***************************************************************************)
Hands == <<"hour", "minute", "second">>
HandNames == {Hands[i] : i \in 1..Len(Hands)}

Full(name) ==
  CASE name = "hour"   -> 12 * 3600
    [] name = "minute" -> 3600
    [] name = "second" -> 60

HandInit(name, time) ==
  IF name = "hour"
  THEN FMul(FDiv(FromInt(time), FromInt(Full(name))), FromInt(360))
  ELSE FMul(FDiv(FromInt(time % Full(name)), FromInt(Full(name))), FromInt(360))

\* mutant: the time already run, init / 360 * full, in place of the time remaining
HandDurationElapsed(name, init) ==
  FMul(FDiv(init, FromInt(360)), FromInt(Full(name)))

HandDuration(name, init) ==
  FMul(FDiv(FSub(FromInt(360), init), FromInt(360)), FromInt(Full(name)))

\* mutant: no keyframe is inserted at 180 degrees
KeyframesDirect(init, duration) ==
  <<[time |-> Zero, angle |-> init], [time |-> duration, angle |-> FromInt(360)]>>

Keyframes(init, duration) ==
  LET first == [time |-> Zero, angle |-> init]
      last  == [time |-> duration, angle |-> FromInt(360)]
      mid   == [time  |-> FMul(FDiv(duration, FSub(FromInt(360), init)),
                               FSub(FromInt(180), init)),
                angle |-> FromInt(180)]
  IN  IF FLt(init, FromInt(180)) THEN <<first, mid, last>> ELSE <<first, last>>

\* the template string `${name} ${init} ${duration}`: distinct numbers print differently
AnimationName(name, init, duration) == <<name, init, duration>>

(***************************************************************************)
(* Bounds of the model.                                                    *)
(***************************************************************************)
\* watch instances constructed in one run (the dispenser's and the equipped ones)
MaxWatches == 2

\* the users of the session
Users == {"u1"}

\* the values Date.now() takes when a watch starts (seconds since midnight UTC):
\* 01:01:01 in London
Instants == {3661}

(***************************************************************************)
(* State.                                                                  *)
(***************************************************************************)
VARIABLES
  appStarted,     \* App: started() has run and the dispensers exist
  userStatus,     \* per user: "absent", "present" (joined), "gone" (left)
  geoPc,          \* per user: userjoined's position: "idle", "pending", "done", "failed"
  timezones,      \* App.timezones: per user NoEntry, Undefined or a timezone
  watches,        \* App.watches: per user 0 (no entry) or a watch instance
  animationData,  \* assets.animationData: the container's data objects, in creation order
  wOwner,         \* per instance: options.owner, a user or NoOwner
  wTimezone,      \* per instance: options.timezone or NoTimezone
  wNode,          \* per instance: this.watch, "alive" or "destroyed"
  initPc,         \* per instance: init's position: "awaitHands", "started", "failed"
  hands,          \* per instance and hand: the hand node, "pending", "created" or "failed"
  pc,             \* per instance and hand: the position of the hand's pipeline
  bound,          \* per instance and hand: the animations bound to the hand node, in bind order
  animations,     \* per instance and hand: this.animations, 0 (no entry) or an index into bound
  stopCalled,     \* per instance: stop() has been called on it (history)
  playingAtDestroy, \* per instance: how many recorded animations were playing when
                  \* this.watch.destroy() was called, -1 before that (history)
  calc            \* the call under study in the specifications of the computed parts

appVars == <<appStarted, userStatus, geoPc, timezones, watches>>
watchVars == <<wOwner, wTimezone, wNode, initPc, hands, pc, bound, animations, stopCalled,
               playingAtDestroy>>
progVars == <<appStarted, userStatus, geoPc, timezones, watches, animationData,
              wOwner, wTimezone, wNode, initPc, hands, pc, bound, animations, stopCalled,
              playingAtDestroy>>
vars == <<progVars, calc>>

NoOwner == "none"
NoEntry == "absent"
Undefined == "undefined"

\* the instances constructed so far
Watches == 1..Len(wNode)

\* the program after `new App(context, params)`
ProgInit ==
  /\ appStarted = FALSE
  /\ userStatus = [u \in Users |-> "absent"]
  /\ geoPc = [u \in Users |-> "idle"]
  /\ timezones = [u \in Users |-> NoEntry]
  /\ watches = [u \in Users |-> 0]
  /\ animationData = <<>>
  /\ wOwner = <<>>
  /\ wTimezone = <<>>
  /\ wNode = <<>>
  /\ initPc = <<>>
  /\ hands = <<>>
  /\ pc = <<>>
  /\ bound = <<>>
  /\ animations = <<>>
  /\ stopCalled = <<>>
  /\ playingAtDestroy = <<>>

Init == ProgInit /\ calc = [op |-> "none"]

(***************************************************************************)
(* AnalogWatch.                                                            *)
(***************************************************************************)
\* constructor and init up to its await: the watch node and the three hand nodes
\* are requested, and the hands map is filled
NewWatch(owner, tz) ==
  /\ wOwner' = Append(wOwner, owner)
  /\ wTimezone' = Append(wTimezone, tz)
  /\ wNode' = Append(wNode, "alive")
  /\ initPc' = Append(initPc, "awaitHands")
  /\ hands' = Append(hands, [h \in HandNames |-> "pending"])
  /\ pc' = Append(pc, [h \in HandNames |-> "notStarted"])
  /\ bound' = Append(bound, [h \in HandNames |-> <<>>])
  /\ animations' = Append(animations, [h \in HandNames |-> 0])
  /\ stopCalled' = Append(stopCalled, FALSE)
  /\ playingAtDestroy' = Append(playingAtDestroy, -1)

\* what animateHandHelper(name, init, duration, loop) computes before it touches
\* the asset container: the keyframes, the animation's name and the wrap mode
\* mutant: every animation is bound to play once
WrapModeOnce(loop) == "Once"

WrapMode(loop) == IF loop THEN "Loop" ELSE "Once"

HelperCall(name, init, duration, loop) ==
  [name      |-> AnimationName(name, init, duration),
   keyframes |-> Keyframes(init, duration),
   wrapMode  |-> WrapMode(loop)]

\* animateHands' call animateHandHelper(name, init, duration, false) for the sample time
CatchUpCall(name, time) ==
  LET init == HandInit(name, time)
  IN  HelperCall(name, init, HandDuration(name, init), FALSE)

\* animateHands' call animateHandHelper(name, 0, full, true)
LoopCall(name) == HelperCall(name, Zero, FromInt(Full(name)), TRUE)

\* the samples now() returns in this model, and the calls made for them
StartSamples == {now(tz, i) : tz \in Timezones \cup {NoTimezone}, i \in Instants}
CatchUpCalls == [t \in StartSamples |-> [h \in HandNames |-> CatchUpCall(h, t)]]
LoopCalls == [h \in HandNames |-> LoopCall(h)]

\* assets.animationData.find(a => a.name == animationName): the index of the first
\* data object of that name, 0 when there is none
Find(data, name) ==
  IF \E i \in 1..Len(data) : data[i].name = name
  THEN CHOOSE i \in 1..Len(data) :
         data[i].name = name /\ \A j \in 1..(i - 1) : data[j].name # name
  ELSE 0

\* mutant: the container is not consulted, every call creates its data
AlwaysCreate(data, call) ==
  Append(data, [name |-> call.name, keyframes |-> call.keyframes])

\* the container after `find`, and `createAnimationData` on a miss
FindOrCreate(data, call) ==
  IF Find(data, call.name) # 0 THEN data
  ELSE Append(data, [name |-> call.name, keyframes |-> call.keyframes])

\* the animation animationData.bind({actor}, {isPlaying: true, wrapMode}) asks the
\* host for, the data object being the one FindOrCreate left in the container
BindRequest(data, call) ==
  [data |-> Find(data, call.name), wrapMode |-> call.wrapMode, isPlaying |-> TRUE]

\* the container after animateHands has run every hand's helper up to its bind,
\* in the order of the hands map
RECURSIVE CatchUpData(_, _, _)
CatchUpData(data, time, i) ==
  IF i > Len(Hands) THEN data
  ELSE CatchUpData(FindOrCreate(data, CatchUpCalls[time][Hands[i]]), time, i + 1)

\* start(): animateHands(now()), every hand's pipeline up to its first await
Start(w, instant) ==
  LET time == now(wTimezone[w], instant) IN
  /\ initPc' = [initPc EXCEPT ![w] = "started"]
  /\ animationData' = CatchUpData(animationData, time, 1)
  /\ bound' = [bound EXCEPT ![w] =
                 [h \in HandNames |->
                    Append(bound[w][h], BindRequest(animationData', CatchUpCalls[time][h]))]]
  /\ pc' = [pc EXCEPT ![w] = [h \in HandNames |-> "catchUpBind"]]

\* the host acknowledges a hand node: actor.created() resolves; when it is the last
\* of the three, Promise.all resolves and init goes on to start()
HandCreated(w, h) ==
  /\ hands[w][h] = "pending"
  /\ hands' = [hands EXCEPT ![w][h] = "created"]
  /\ IF initPc[w] = "awaitHands" /\ \A g \in HandNames \ {h} : hands[w][g] = "created"
     THEN \E instant \in Instants : Start(w, instant)
     ELSE UNCHANGED <<initPc, animationData, bound, pc>>
  /\ UNCHANGED <<calc, appVars, wOwner, wTimezone, wNode, animations, stopCalled,
                 playingAtDestroy>>

\* mutant: a rejected actor.created() settles the wait like a resolved one
HandFailedSettled(w, h) ==
  /\ hands[w][h] = "pending"
  /\ hands' = [hands EXCEPT ![w][h] = "failed"]
  /\ IF initPc[w] = "awaitHands" /\ \A g \in HandNames \ {h} : hands[w][g] # "pending"
     THEN \E instant \in Instants : Start(w, instant)
     ELSE UNCHANGED <<initPc, animationData, bound, pc>>
  /\ UNCHANGED <<calc, appVars, wOwner, wTimezone, wNode, animations, stopCalled,
                 playingAtDestroy>>

\* the host fails to create a hand node: actor.created() rejects, so does Promise.all,
\* and init ends without start()
HandFailed(w, h) ==
  /\ hands[w][h] = "pending"
  /\ hands' = [hands EXCEPT ![w][h] = "failed"]
  /\ initPc' = [initPc EXCEPT ![w] = IF @ = "awaitHands" THEN "failed" ELSE @]
  /\ UNCHANGED <<calc, appVars, animationData, wOwner, wTimezone, wNode, pc, bound,
                 animations, stopCalled,
                 playingAtDestroy>>

\* where a hand's pipeline goes when its pending bind resolves: after the catch-up
\* bind the helper waits on its timer, after the loop bind it returns
AfterBind(phase) == IF phase = "catchUpBind" THEN "catchUpWait" ELSE "looping"

\* animationData.bind resolves: this.animations.set(name, animation)
BindResolved(w, h) ==
  /\ pc[w][h] \in {"catchUpBind", "loopBind"}
  /\ animations' = [animations EXCEPT ![w][h] = Len(bound[w][h])]
  /\ pc' = [pc EXCEPT ![w][h] = AfterBind(pc[w][h])]
  /\ UNCHANGED <<calc, appVars, animationData, wOwner, wTimezone, wNode, initPc, hands,
                 bound, stopCalled, playingAtDestroy>>

\* the authored duration of a data object: the time of its last keyframe
AuthoredDuration(d) == d.keyframes[Len(d.keyframes)].time

\* mutant: the timer is set to fire at once
NoWait(d) == Zero

\* the seconds the helper's timer waits: animationData.duration()
TimerWait(d) == AuthoredDuration(d)

\* the animations of a hand when a timer set after its last bind resolved has waited
\* `wait` seconds: an animation bound with wrap mode Once has played to its end, and
\* plays no more, when its data's authored duration is within the wait
RunOut(anims, data, wait) ==
  [i \in 1..Len(anims) |->
     IF anims[i].wrapMode = "Once" /\ FLe(AuthoredDuration(data[anims[i].data]), wait)
     THEN [anims[i] EXCEPT !.isPlaying = FALSE]
     ELSE anims[i]]

\* the animations of a hand when the timer of the helper that bound the last of them
\* fires
AfterTimer(anims, data) ==
  RunOut(anims, data, TimerWait(data[anims[Len(anims)].data]))

\* mutant: the helper's first call is not awaited, so the loop phase is entered while
\* the catch-up bind or its timer wait is still pending
TimerFiredUnawaited(w, h) ==
  /\ pc[w][h] \in {"catchUpBind", "catchUpWait"}
  /\ animationData' = FindOrCreate(animationData, LoopCalls[h])
  /\ bound' = [bound EXCEPT ![w][h] =
                 Append(AfterTimer(@, animationData), BindRequest(animationData', LoopCalls[h]))]
  /\ pc' = [pc EXCEPT ![w][h] = "loopBind"]
  /\ UNCHANGED <<calc, appVars, wOwner, wTimezone, wNode, initPc, hands, animations,
                 stopCalled, playingAtDestroy>>

\* mutant: the loop helper binds only when it has created the data
TimerFiredBindOnMiss(w, h) ==
  /\ pc[w][h] = "catchUpWait"
  /\ animationData' = FindOrCreate(animationData, LoopCalls[h])
  /\ bound' = [bound EXCEPT ![w][h] =
                 IF Find(animationData, LoopCalls[h].name) # 0
                 THEN AfterTimer(@, animationData)
                 ELSE Append(AfterTimer(@, animationData),
                             BindRequest(animationData', LoopCalls[h]))]
  /\ pc' = [pc EXCEPT ![w][h] = "loopBind"]
  /\ UNCHANGED <<calc, appVars, wOwner, wTimezone, wNode, initPc, hands, animations, stopCalled,
                 playingAtDestroy>>

\* the timer set after the catch-up bind fires; the helper returns and animateHands
\* goes on with animateHandHelper(name, 0, full, true) up to its bind
TimerFired(w, h) ==
  /\ pc[w][h] = "catchUpWait"
  /\ animationData' = FindOrCreate(animationData, LoopCalls[h])
  /\ bound' = [bound EXCEPT ![w][h] =
                 Append(AfterTimer(@, animationData), BindRequest(animationData', LoopCalls[h]))]
  /\ pc' = [pc EXCEPT ![w][h] = "loopBind"]
  /\ UNCHANGED <<calc, appVars, wOwner, wTimezone, wNode, initPc, hands, animations, stopCalled,
                 playingAtDestroy>>

\* mutant: each recorded animation's playing flag is flipped
ToggleAll(anims, w) ==
  [anims EXCEPT ![w] =
     [h \in HandNames |->
        [i \in 1..Len(anims[w][h]) |->
           IF i = animations[w][h]
           THEN [anims[w][h][i] EXCEPT !.isPlaying = ~@]
           ELSE anims[w][h][i]]]]

\* this.animations.forEach(a => a.stop()) on the animations of instance w
StopAll(anims, w) ==
  [anims EXCEPT ![w] =
     [h \in HandNames |->
        [i \in 1..Len(anims[w][h]) |->
           IF i = animations[w][h]
           THEN [anims[w][h][i] EXCEPT !.isPlaying = FALSE]
           ELSE anims[w][h][i]]]]

\* how many animations recorded in this.animations of instance w are playing
RecordedPlaying(anims, w) ==
  Cardinality({h \in HandNames : animations[w][h] # 0 /\ anims[w][h][animations[w][h]].isPlaying})

\* AnalogWatch.stop
Stop(w) ==
  /\ bound' = StopAll(bound, w)
  /\ stopCalled' = [stopCalled EXCEPT ![w] = TRUE]
  /\ UNCHANGED <<calc, appVars, animationData, wOwner, wTimezone, wNode, initPc, hands, pc,
                 animations, playingAtDestroy>>

\* mutant: this.watch.destroy(); this.stop()
RemoveBodyDestroyFirst(w) ==
  /\ bound' = StopAll(bound, w)
  /\ stopCalled' = [stopCalled EXCEPT ![w] = TRUE]
  /\ wNode' = [wNode EXCEPT ![w] = "destroyed"]
  /\ playingAtDestroy' = [playingAtDestroy EXCEPT ![w] = RecordedPlaying(bound, w)]

\* the body of remove(): this.stop(); this.watch.destroy()
RemoveBody(w) ==
  LET stopped == StopAll(bound, w) IN
  /\ bound' = stopped
  /\ stopCalled' = [stopCalled EXCEPT ![w] = TRUE]
  /\ wNode' = [wNode EXCEPT ![w] = "destroyed"]
  /\ playingAtDestroy' = [playingAtDestroy EXCEPT ![w] = RecordedPlaying(stopped, w)]

\* AnalogWatch.remove
Remove(w) ==
  /\ RemoveBody(w)
  /\ UNCHANGED <<calc, appVars, animationData, wOwner, wTimezone, initPc, hands, pc,
                 animations>>

(***************************************************************************)
(* App.                                                                    *)
(***************************************************************************)
\* started() -> init() -> createWatchDispenser() with the default catalog of one
\* analog watch: the dispenser's watch has a parent and neither owner nor timezone
Started ==
  /\ ~appStarted
  /\ Len(wNode) < MaxWatches
  /\ appStarted' = TRUE
  /\ NewWatch(NoOwner, NoTimezone)
  /\ UNCHANGED <<calc, userStatus, geoPc, timezones, watches, animationData>>

\* userjoined up to `await geoloc(...)`
UserJoined(u) ==
  /\ userStatus[u] = "absent"
  /\ userStatus' = [userStatus EXCEPT ![u] = "present"]
  /\ geoPc' = [geoPc EXCEPT ![u] = "pending"]
  /\ UNCHANGED <<calc, appStarted, timezones, watches, animationData, watchVars>>

\* geoloc resolves: this.timezones.set(user.id, tzs[0]), tzs[0] being undefined when
\* geoTz.find returns no zone
GeoResolved(u, tz) ==
  /\ geoPc[u] = "pending"
  /\ geoPc' = [geoPc EXCEPT ![u] = "done"]
  /\ timezones' = [timezones EXCEPT ![u] = tz]
  /\ UNCHANGED <<calc, appStarted, userStatus, watches, animationData, watchVars>>

\* geoloc rejects: userjoined ends without storing a timezone
GeoFailed(u) ==
  /\ geoPc[u] = "pending"
  /\ geoPc' = [geoPc EXCEPT ![u] = "failed"]
  /\ UNCHANGED <<calc, appStarted, userStatus, timezones, watches, animationData, watchVars>>

\* mutant: the stored value is passed on as it is
EquipTimezoneStored(u) == timezones[u]

\* the timezone option equipWatch gives the watch: timezone ? timezone : 'Europe/London'
EquipTimezone(u) ==
  IF timezones[u] \in {NoEntry, Undefined} THEN DefaultTimezone ELSE timezones[u]

\* a click on the dispenser: equipWatch(user, 0)
EquipWatch(u) ==
  /\ appStarted
  /\ userStatus[u] = "present"
  /\ Len(wNode) < MaxWatches
  /\ NewWatch(u, EquipTimezone(u))
  /\ UNCHANGED <<calc, appVars, animationData>>

\* userleft: remove and forget the user's watch if this.watches has one, and forget
\* the user's timezone
UserLeft(u) ==
  /\ userStatus[u] = "present"
  /\ userStatus' = [userStatus EXCEPT ![u] = "gone"]
  /\ IF watches[u] # 0
     THEN /\ RemoveBody(watches[u])
          /\ watches' = [watches EXCEPT ![u] = 0]
     ELSE UNCHANGED <<bound, stopCalled, wNode, playingAtDestroy, watches>>
  /\ timezones' = [timezones EXCEPT ![u] = NoEntry]
  /\ UNCHANGED <<calc, appStarted, geoPc, animationData, wOwner, wTimezone, initPc, hands, pc,
                 animations>>

(***************************************************************************)
(* The program as a whole: the App, its users and the host.  Nothing in    *)
(* the program calls stop() or remove() except userleft.                   *)
(***************************************************************************)
Next ==
  \/ Started
  \/ \E u \in Users : UserJoined(u)
  \/ \E u \in Users : \E tz \in Timezones \cup {Undefined} : GeoResolved(u, tz)
  \/ \E u \in Users : GeoFailed(u)
  \/ \E u \in Users : EquipWatch(u)
  \/ \E u \in Users : UserLeft(u)
  \/ \E w \in Watches : \E h \in HandNames : HandCreated(w, h)
  \/ \E w \in Watches : \E h \in HandNames : HandFailed(w, h)
  \/ \E w \in Watches : \E h \in HandNames : BindResolved(w, h)
  \/ \E w \in Watches : \E h \in HandNames : TimerFired(w, h)

Spec == Init /\ [][Next]_vars

(***************************************************************************)
(* One AnalogWatch (the dispenser's) under the host and a client that may  *)
(* call its public stop() and remove() at any moment.                      *)
(***************************************************************************)
WatchNext ==
  \/ Started
  \/ \E w \in Watches : \E h \in HandNames : HandCreated(w, h)
  \/ \E w \in Watches : \E h \in HandNames : HandFailed(w, h)
  \/ \E w \in Watches : \E h \in HandNames : BindResolved(w, h)
  \/ \E w \in Watches : \E h \in HandNames : TimerFired(w, h)
  \/ \E w \in Watches : Stop(w)
  \/ \E w \in Watches : Remove(w)

WatchSpec == Init /\ [][WatchNext]_vars

(***************************************************************************)
(* One AnalogWatch (the dispenser's) on which stop() and remove() are      *)
(* never called, under a host that completes every bind request and every  *)
(* timer.                                                                  *)
(***************************************************************************)
LiveNext ==
  \/ Started
  \/ \E w \in Watches : \E h \in HandNames : HandCreated(w, h)
  \/ \E w \in Watches : \E h \in HandNames : HandFailed(w, h)
  \/ \E w \in Watches : \E h \in HandNames : BindResolved(w, h)
  \/ \E w \in Watches : \E h \in HandNames : TimerFired(w, h)

LiveSpec ==
  /\ Init
  /\ [][LiveNext]_vars
  /\ \A w \in 1..MaxWatches : \A h \in HandNames :
       /\ WF_vars(w \in Watches /\ BindResolved(w, h))
       /\ WF_vars(w \in Watches /\ TimerFired(w, h))

(***************************************************************************)
(* The time sampler alone: now() applied to the clock readings of a day,   *)
(* every minute of it at the seconds ClockSeconds, in every timezone.      *)
(***************************************************************************)
ClockSeconds == {0, 1, 30, 59}
ClockInstants == {m * 60 + sec : m \in 0..(SecondsPerDay \div 60 - 1), sec \in ClockSeconds}

NowInit ==
  /\ ProgInit
  /\ calc \in {[op |-> "clock", tz |-> tz, instant |-> i] :
                 tz \in Timezones \cup {NoTimezone}, i \in ClockInstants}

SampleNow ==
  /\ calc.op = "clock"
  /\ calc' = [op |-> "now", tz |-> calc.tz, instant |-> calc.instant,
              sample |-> now(calc.tz, calc.instant)]
  /\ UNCHANGED progVars

NowSpec == NowInit /\ [][SampleNow]_vars

(***************************************************************************)
(* animateHands' computation alone: for each hand and every integer sample *)
(* below the hand's cycle length, the initial angle and the duration of    *)
(* the catch-up phase.                                                     *)
(***************************************************************************)
HandsInit ==
  /\ ProgInit
  /\ calc \in UNION {{[op |-> "time", hand |-> h, time |-> t] : t \in 0..(Full(h) - 1)} :
                        h \in HandNames}

\* the switch of one iteration of animateHands' forEach
AnimateHand ==
  /\ calc.op = "time"
  /\ LET init == HandInit(calc.hand, calc.time)
     IN  calc' = [op |-> "catchUp", hand |-> calc.hand, time |-> calc.time,
                  init |-> init, duration |-> HandDuration(calc.hand, init)]
  /\ UNCHANGED progVars

HandsSpec == HandsInit /\ [][AnimateHand]_vars

(***************************************************************************)
(* animateHandHelper's computation alone: the calls animateHands makes for *)
(* every sample now() returns, the catch-up call and the loop call of each *)
(* hand, and the keyframes, name and wrap mode the helper derives.         *)
(***************************************************************************)
NowSamples == {now(NoTimezone, m * 60) : m \in 0..(SecondsPerDay \div 60 - 1)}

HelperInit ==
  /\ ProgInit
  /\ calc \in {[op |-> "sample", hand |-> h, time |-> t] : h \in HandNames, t \in NowSamples}
              \cup {[op |-> "full", hand |-> h] : h \in HandNames}

\* animateHandHelper(name, init, duration, false) for the sample
HelpCatchUp ==
  /\ calc.op = "sample"
  /\ calc' = [op |-> "helper", hand |-> calc.hand, time |-> calc.time, loop |-> FALSE,
              call |-> CatchUpCall(calc.hand, calc.time)]
  /\ UNCHANGED progVars

\* animateHandHelper(name, 0, full, true)
HelpLoop ==
  /\ calc.op = "full"
  /\ calc' = [op |-> "helper", hand |-> calc.hand, time |-> 0, loop |-> TRUE,
              call |-> LoopCall(calc.hand)]
  /\ UNCHANGED progVars

HelperNext == HelpCatchUp \/ HelpLoop

HelperSpec == HelperInit /\ [][HelperNext]_vars

(***************************************************************************)
(* Claims.                                                                 *)
(***************************************************************************)
Instances == 1..Len(bound)

\* the animations of instance w's hand h that are playing, by their index in bound
Playing(w, h) == {i \in 1..Len(bound[w][h]) : bound[w][h][i].isPlaying}

\* C1: a hand's loop animation is bound only by the continuation of that hand's
\* catch-up phase: in the step that binds an animation with wrap mode Loop, the hand
\* was waiting on the timer of its catch-up, whose animation (wrap mode Once) was
\* bound and recorded before; so phase 2 never precedes phase 1 and phase 1 is
\* never skipped.
C1_LoopOnlyAfterCatchUpWait ==
  [][\A w \in Instances : \A h \in HandNames :
       (/\ Len(bound'[w][h]) > Len(bound[w][h])
        /\ bound'[w][h][Len(bound'[w][h])].wrapMode = "Loop")
       => /\ pc[w][h] = "catchUpWait"
          /\ Len(bound[w][h]) = 1
          /\ bound[w][h][1].wrapMode = "Once"
          /\ animations[w][h] = 1]_vars

\* C1's case: a hand that went through both phases and loops
C1_Witness ==
  \E w \in Instances : \E h \in HandNames :
    /\ pc[w][h] = "looping"
    /\ Len(bound[w][h]) = 2
    /\ bound[w][h][2].wrapMode = "Loop"

\* C2: once stop() has been called on an instance, the continuation of a hand that
\* was in its catch-up phase does not start the loop phase.
C2_NoLoopAfterStop ==
  [][\A w \in Instances : \A h \in HandNames :
       (stopCalled[w] /\ pc[w][h] = "catchUpWait") => pc'[w][h] # "loopBind"]_vars

\* C3: in the state right after stop() returns, no animation of the instance is
\* playing, those whose bind is still in flight included.
C3_StopLeavesNothingPlaying ==
  [][\A w \in Instances :
       Stop(w) => \A h \in HandNames :
                    \A i \in 1..Len(bound'[w][h]) : ~bound'[w][h][i].isPlaying]_vars

\* C4: the container holds at most one data object per name (hand, initial angle,
\* duration), and every bound animation uses the object of its name that the
\* container holds.
C4_OneDataPerKey ==
  /\ \A i, j \in 1..Len(animationData) :
       animationData[i].name = animationData[j].name => i = j
  /\ \A w \in Instances : \A h \in HandNames : \A k \in 1..Len(bound[w][h]) :
       bound[w][h][k].data \in 1..Len(animationData)

\* C4's case: two instances whose calls had the same key share one data object
C4_Witness ==
  \E w1, w2 \in Instances : \E h \in HandNames :
    /\ w1 # w2
    /\ Len(bound[w1][h]) = 2
    /\ Len(bound[w2][h]) = 2
    /\ bound[w1][h][1].data = bound[w2][h][1].data
    /\ bound[w1][h][2].data = bound[w2][h][2].data

(***************************************************************************)
(* Exact arithmetic on the values of numbers, for stating what the         *)
(* computed numbers are: no rounding takes place here.                     *)
(***************************************************************************)
Exact(r) == Canon(r.s, r.n, r.e)
Times(x, y) == Exact(ExactProduct(x, y))
Plus(x, y) == Exact(ExactSum(x, y))
Minus(x, y) == Exact(ExactSum(x, FNeg(y)))
Abs(x) == [x EXCEPT !.s = 1]
AtMost(x, y) == LET d == Minus(y, x) IN d.m = <<>> \/ d.s = 1
Below(x, y) == LET d == Minus(y, x) IN d.m # <<>> /\ d.s = 1

\* 2^-30, less than a billionth
Tolerance == [s |-> 1, m |-> <<1>>, e |-> -30]

\* C5 as stated: for a sample below the hand's cycle length, initAngle * full =
\* 360 * sample with initAngle in [0, 360), catchUpDuration = full - sample, and
\* initAngle + catchUpDuration / full * 360 = 360, all exactly.
C5_ExactAngleAndDuration ==
  calc.op = "catchUp" =>
    LET full == FromInt(Full(calc.hand)) IN
    /\ Times(calc.init, full) = FromInt(360 * calc.time)
    /\ AtMost(Zero, calc.init) /\ Below(calc.init, FromInt(360))
    /\ calc.duration = FromInt(Full(calc.hand) - calc.time)
    /\ Plus(Times(calc.init, full), Times(calc.duration, FromInt(360)))
         = FromInt(360 * Full(calc.hand))

\* C5 as amended: the same equalities up to the rounding of the double arithmetic:
\* initAngle is in [0, 360) and within 2^-30 degrees of 360 * sample / full,
\* catchUpDuration is within 2^-30 s of full - sample, and the catch-up ends within
\* 2^-30 degrees of the wrap point.
C5_AngleAndDurationUpToRounding ==
  calc.op = "catchUp" =>
    LET full == FromInt(Full(calc.hand))
        tol  == Times(Tolerance, full)
    IN  /\ AtMost(Abs(Minus(Times(calc.init, full), FromInt(360 * calc.time))), tol)
        /\ AtMost(Zero, calc.init) /\ Below(calc.init, FromInt(360))
        /\ AtMost(Abs(Minus(calc.duration, FromInt(Full(calc.hand) - calc.time))), Tolerance)
        /\ AtMost(Abs(Minus(Plus(Times(calc.init, full), Times(calc.duration, FromInt(360))),
                            FromInt(360 * Full(calc.hand)))), tol)

\* C5's case: the minute hand at sample 61, whose duration is computed as
\* 3538.9999999999995 and not 3539
C5_Witness ==
  /\ calc.op = "catchUp"
  /\ calc.hand = "minute"
  /\ calc.time = 61
  /\ calc.duration # FromInt(3539)
  /\ Below(FromInt(3538), calc.duration)

\* C6: the keyframes animateHandHelper builds for (init, duration) are 3 when
\* init < 180, the middle one holding 180 degrees at a time strictly between 0 and
\* duration, and 2 when init >= 180; the first is (0, init), the last (duration, 360).
C6_KeyframeShape ==
  calc.op = "helper" =>
    LET init     == calc.call.name[2]
        duration == calc.call.name[3]
        k        == calc.call.keyframes
    IN  /\ IF FLt(init, FromInt(180))
           THEN /\ Len(k) = 3
                /\ k[2].angle = FromInt(180)
                /\ FLt(Zero, k[2].time)
                /\ FLt(k[2].time, duration)
           ELSE Len(k) = 2
        /\ k[1] = [time |-> Zero, angle |-> init]
        /\ k[Len(k)] = [time |-> duration, angle |-> FromInt(360)]

\* C6's case: a catch-up call of the hour hand from below 180 degrees, with its
\* keyframe at 180 degrees
C6_Witness ==
  /\ calc.op = "helper"
  /\ ~calc.loop
  /\ calc.hand = "hour"
  /\ FLt(Zero, calc.call.name[2])
  /\ Len(calc.call.keyframes) = 3

\* C7: for every wall-clock reading in any timezone now() returns a number of
\* seconds in [0, 43200), the seconds elapsed since the most recent 12-hour boundary.
C7_SecondsSinceHalfDay ==
  calc.op = "now" =>
    LET tz == IF calc.tz = NoTimezone THEN DefaultTimezone ELSE calc.tz
        local == (calc.instant + TzOffset(tz) * 3600) % SecondsPerDay
    IN  /\ calc.sample \in 0..(SecondsPerDay \div 2 - 1)
        /\ calc.sample = local % (SecondsPerDay \div 2)

\* C8: when remove() destroys the watch node, stop() has run: none of the
\* instance's recorded animations is playing at the destroy.
C8_StoppedBeforeDestroy ==
  \A w \in Instances : wNode[w] = "destroyed" => playingAtDestroy[w] = 0

\* C8's case: an instance removed while a recorded loop animation was playing
C8_Witness ==
  \E w \in Instances : \E h \in HandNames :
    /\ wNode[w] = "destroyed"
    /\ animations[w][h] = 2
    /\ bound[w][h][2].wrapMode = "Loop"
    /\ ~bound[w][h][2].isPlaying

\* C9: once userleft(u) has been handled, every watch equipWatch created for u has
\* been removed: its node is destroyed and none of its animations is playing.
C9_WearerLeftWatchRemoved ==
  \A u \in Users : userStatus[u] = "gone" =>
    \A w \in Instances : wOwner[w] = u =>
      /\ wNode[w] = "destroyed"
      /\ \A h \in HandNames : Playing(w, h) = {}

\* hand h of instance w is looping: its pipeline has returned from the loop bind,
\* and the recorded animation plays, with wrap mode Loop, the data object that runs
\* from 0 to 360 degrees over the hand's cycle length
Looping(w, h) ==
  /\ w \in Watches
  /\ pc[w][h] = "looping"
  /\ animations[w][h] # 0
  /\ animations[w][h] = Len(bound[w][h])
  /\ LET a == bound[w][h][animations[w][h]]
         k == animationData[a.data].keyframes
     IN  /\ a.wrapMode = "Loop"
         /\ a.isPlaying
         /\ k[1] = [time |-> Zero, angle |-> Zero]
         /\ k[Len(k)] = [time |-> FromInt(Full(h)), angle |-> FromInt(360)]

\* C10: on an instance whose three hand nodes were created and which is never
\* stopped or removed, when every bind and every timer completes, each hand
\* eventually plays its loop animation (0 to 360 degrees over its cycle length, wrap
\* mode Loop) and stays looping forever.
C10_EveryHandLoopsForever ==
  \A w \in 1..MaxWatches : \A h \in HandNames :
    [](w \in Watches /\ initPc[w] = "started" => <>[]Looping(w, h))

\* C10's case: the three hands of a started instance all looping
C10_Witness ==
  \E w \in Instances :
    /\ initPc[w] = "started"
    /\ \A h \in HandNames : Looping(w, h)

\* no animation recorded in this.animations of instance w is playing
AllStopped(w) ==
  \A h \in HandNames : animations[w][h] # 0 => ~bound[w][h][animations[w][h]].isPlaying

\* C11: stop() is idempotent: a stop() or remove() leaves the animation map as it
\* was, a second stop() after it would change nothing, and on an instance whose
\* recorded animations are all stopped (or which has none) it leaves every playing
\* flag as it was.
C11_StopIdempotent ==
  [][\A w \in Instances :
       (Stop(w) \/ Remove(w)) =>
         /\ animations' = animations
         /\ StopAll(bound', w) = bound'
         /\ AllStopped(w) => bound' = bound]_vars

\* C11's case: a live instance that was stopped with a recorded loop animation,
\* where stop() can be called again
C11_Witness ==
  \E w \in Instances : \E h \in HandNames :
    /\ stopCalled[w]
    /\ wNode[w] # "destroyed"
    /\ animations[w][h] = 2
    /\ AllStopped(w)

\* the instants of the same minute as instant, at the seconds of ClockSeconds
SameMinute(instant) == {(instant \div 60) * 60 + sec : sec \in ClockSeconds}

\* C12: the sample of now() does not depend on the seconds of the reading: every
\* reading of the same hour and minute yields the same sample, hence the same
\* initial angle and catch-up duration, those of the second hand included.
C12_SecondsIgnored ==
  calc.op = "now" =>
    LET samples == {now(calc.tz, other) : other \in SameMinute(calc.instant)}
    IN  /\ samples = {calc.sample}
        /\ \A h \in HandNames :
             Cardinality({<<HandInit(h, t), HandDuration(h, HandInit(h, t))>> :
                            t \in samples}) = 1

\* C12's case: the reading 1:01:59 AM, sampled as 1:01:00 AM is
C12_Witness ==
  /\ calc.op = "now"
  /\ calc.tz = NoTimezone
  /\ calc.instant = 3719
  /\ calc.sample = now(NoTimezone, 3660)

\* a click of user u on the dispenser can be handled
CanClick(u) == appStarted /\ userStatus[u] = "present" /\ Len(wNode) < MaxWatches

\* C13: a click is handled whatever the state of the user's timezone resolution,
\* and constructs a watch owned by the user whose timezone is the value stored for
\* the user when it is a timezone, and Europe/London otherwise; now() reads a watch
\* built without a timezone in Europe/London as well.
C13_EquipTimezoneDefined ==
  /\ [](\A u \in Users : CanClick(u) => ENABLED EquipWatch(u))
  /\ [](\A i \in Instants : now(NoTimezone, i) = now(DefaultTimezone, i))
  /\ [][\A u \in Users : EquipWatch(u) =>
          /\ Len(wNode') = Len(wNode) + 1
          /\ wOwner'[Len(wNode')] = u
          /\ wTimezone'[Len(wNode')] \in Timezones
          /\ wTimezone'[Len(wNode')] =
               IF timezones[u] \in Timezones THEN timezones[u] ELSE DefaultTimezone]_vars

\* C13's case: a watch equipped while the wearer's resolution is in flight
C13_Witness ==
  \E w \in Instances : \E u \in Users :
    /\ wOwner[w] = u
    /\ geoPc[u] = "pending"
    /\ timezones[u] = NoEntry
    /\ wTimezone[w] = DefaultTimezone

\* the hands of instance w whose animation pipeline has been started
StartedHands(w) == {h \in HandNames : pc[w][h] # "notStarted" \/ Len(bound[w][h]) > 0}

\* C14: an instance has started the pipelines of none or of all three of its hands;
\* when it has started them all three hand nodes are created, and when a hand node
\* failed it has started none.
C14_AllOrNothing ==
  \A w \in Instances :
    /\ StartedHands(w) \in {{}, HandNames}
    /\ StartedHands(w) # {} => \A h \in HandNames : hands[w][h] = "created"
    /\ (\E h \in HandNames : hands[w][h] = "failed") => StartedHands(w) = {}
    /\ StartedHands(w) # {} <=> initPc[w] = "started"

\* C14's case: the last hand node fails after the other two were created
C14_Witness ==
  \E w \in Instances : \E h \in HandNames :
    /\ hands[w][h] = "failed"
    /\ \A g \in HandNames \ {h} : hands[w][g] = "created"
    /\ StartedHands(w) = {}

\* C15: at most one animation is playing on a hand at any time, and the step that
\* binds a hand's loop animation finds the hand's catch-up animation bound, recorded
\* and at its end, its timer having waited the time of its data's last keyframe.
C15_OnePlayingPerHand ==
  /\ [](\A w \in Instances : \A h \in HandNames : Cardinality(Playing(w, h)) <= 1)
  /\ [][\A w \in Instances : \A h \in HandNames :
          Len(bound'[w][h]) = 2 /\ Len(bound[w][h]) = 1 =>
            /\ animations[w][h] = 1
            /\ TimerWait(animationData[bound[w][h][1].data])
                 = animationData[bound[w][h][1].data].keyframes[
                     Len(animationData[bound[w][h][1].data].keyframes)].time
            /\ ~bound'[w][h][1].isPlaying
            /\ bound'[w][h][2].isPlaying]_vars

\* C15's case: a hand whose loop animation plays after its catch-up animation ended
C15_Witness ==
  \E w \in Instances : \E h \in HandNames :
    /\ Len(bound[w][h]) = 2
    /\ ~stopCalled[w]
    /\ Playing(w, h) = {2}

\* the animations and the animation map of every instance but w are as they were
OthersUntouched(w) ==
  \A v \in Instances \ {w} : bound'[v] = bound[v] /\ animations'[v] = animations[v]

\* the last animation bound to hand h of instance w in this step is a new one, asked
\* to play data object `name` with the wrap mode of `loop`
NewBind(w, h, name, loop) ==
  /\ Len(bound'[w][h]) = Len(bound[w][h]) + 1
  /\ LET a == bound'[w][h][Len(bound'[w][h])]
     IN  /\ a.isPlaying
         /\ a.wrapMode = (IF loop THEN "Loop" ELSE "Once")
         /\ a.data \in 1..Len(animationData')
         /\ animationData'[a.data].name = name

\* the sample now() returns for each timezone option at each instant of the model
SampleAt ==
  [tz \in Timezones \cup {NoTimezone} |-> [i \in Instants |-> now(tz, i)]]

\* C16: every call of animateHandHelper, whether it finds its data in the container
\* or creates it, binds one new playing animation to the calling instance's hand,
\* with wrap mode Loop iff loop; the handle is recorded under that hand in that
\* instance's map only; no other instance's animations or map change.
C16_BindPerInstance ==
  [][\A w \in Instances : \A h \in HandNames :
       /\ pc'[w][h] = "loopBind" /\ pc[w][h] # "loopBind" /\ TimerFired(w, h) =>
            /\ NewBind(w, h, LoopCalls[h].name, TRUE)
            /\ \A g \in HandNames \ {h} : bound'[w][g] = bound[w][g]
            /\ animations' = animations
            /\ OthersUntouched(w)
       /\ initPc'[w] # initPc[w] /\ HandCreated(w, h) =>
            /\ \E i \in Instants : \A g \in HandNames :
                 NewBind(w, g, CatchUpCalls[SampleAt[wTimezone[w]][i]][g].name, FALSE)
            /\ animations' = animations
            /\ OthersUntouched(w)
       /\ pc'[w][h] # pc[w][h] /\ BindResolved(w, h) =>
            /\ bound' = bound
            /\ animations' = [animations EXCEPT ![w][h] = Len(bound[w][h])]]_vars

\* C16's case: two instances whose hands share a data object, found in the container
\* by the second, each with its own animation of it: one ended, one playing
C16_Witness ==
  \E w, v \in Instances : \E h \in HandNames :
    /\ w # v
    /\ Len(bound[w][h]) = 2
    /\ Len(bound[v][h]) = 1
    /\ bound[w][h][1].data = bound[v][h][1].data
    /\ ~bound[w][h][1].isPlaying
    /\ bound[v][h][1].isPlaying
    /\ animations[v][h] = 1

\* the keyframe times of k increase strictly
Increasing(k) == \A i \in 1..(Len(k) - 1) : FLt(k[i].time, k[i + 1].time)

\* C17: for every sample now() returns and each hand, the catch-up call animateHands
\* makes has an initial angle in [0, 360) and a duration in (0, full], its keyframe
\* times increase strictly and its timer wait is not negative.
C17_CatchUpWellFormed ==
  calc.op = "helper" /\ ~calc.loop =>
    LET init     == calc.call.name[2]
        duration == calc.call.name[3]
    IN  /\ FLe(Zero, init) /\ FLt(init, FromInt(360))
        /\ FLt(Zero, duration) /\ FLe(duration, FromInt(Full(calc.hand)))
        /\ Increasing(calc.call.keyframes)
        /\ FLe(Zero, TimerWait(calc.call))

\* C18: an instance removed while its construction waits for the hand nodes does
\* not start its hand pipelines when the wait completes: no animation is bound to a
\* hand of the destroyed watch.
C18_NoStartAfterRemove ==
  [][\A w \in Instances :
       wNode[w] = "destroyed" /\ initPc[w] = "awaitHands" =>
         /\ initPc'[w] # "started"
         /\ \A h \in HandNames : Len(bound'[w][h]) = 0]_vars

\* C19: once a user is gone and the user's userjoined has finished, App.timezones
\* holds no entry for the user.
C19_NoTimezoneAfterLeave ==
  \A u \in Users :
    userStatus[u] = "gone" /\ geoPc[u] \in {"done", "failed"} => timezones[u] = NoEntry

====
